---- MODULE Spec2Model ----
(***************************************************************************)
(* Execution context propagation (comfy_execution/utils.py) and the        *)
(* expected-outputs analysis of a prompt graph.                            *)
(*                                                                         *)
(* Spec      : tasks opening, querying and leaving `with CurrentNodeContext`*)
(*             blocks, each task owning its own contextvars.Context.       *)
(* SpecGraph : a prompt graph, the expected-outputs query over it, and the *)
(*             scheduler invoking nodes inside a scope carrying the answer.*)
(* SpecObj   : CurrentNodeContext objects entered and exited by hand.      *)
(* SpecDep   : node classes under the add_dependency_input decorator       *)
(*             (comfy/node_dependency.py) and calls of their functions.    *)
(* SpecSeq   : one task entering and exiting scope objects in any order,   *)
(*             with an error of a block on its way to the caller.          *)
(* SpecSpawn : a task or thread started while its parent is in a scope.    *)
(* SpecWrap  : wrap_node_classes (comfy/node_dependency_wrapper.py) over a *)
(*             mapping of node classes.                                    *)
(***************************************************************************)
EXTENDS Integers, Sequences, FiniteSets, TLC

(* ---------------------------------------------------------------- bounds *)
\* deepest nesting of `with` blocks in one task
MaxDepth == 3
\* output indices linked in a graph range over 0..MaxIndex
MaxIndex == 1

(* --------------------------------------------------------- optional values *)
\* Python's None, and a present value; `x | None` is modelled as a sequence
\* of length 0 or 1 so that values of different shapes are never compared.
None == << >>
Some(x) == << x >>
\* contextvars' marker for "the variable has no value in this Context"
MISSING == << >>

Tasks == {"t1", "t2"}

Indices == 0 .. MaxIndex

(* ------------------------------------------------------- ExecutionContext *)
ExecutionContext(prompt_id, node_id, list_index, expected_outputs) ==
    [prompt_id |-> prompt_id, node_id |-> node_id,
     list_index |-> list_index, expected_outputs |-> expected_outputs]

\* The arguments the callers of a task pass to CurrentNodeContext(...).
\* Each task works on its own nodes; list_index and expected_outputs are
\* given or left out, and a caller may pass a negative list index.
ScopeArgs(t) ==
    IF t = "t1"
    THEN { ExecutionContext("prompt-1", "node-1", Some(0), Some({0, 2})),
           ExecutionContext("prompt-1", "node-3", None, None),
           ExecutionContext("prompt-1", "node-1", Some(-1), Some({})) }
    ELSE { ExecutionContext("prompt-1", "node-2", Some(0), Some({1})),
           ExecutionContext("prompt-1", "node-2", None, Some({})) }

VARIABLES
    cur,      \* cur[t]: value of current_executing_context in task t's Context
    stack,    \* stack[t]: the `with` blocks task t is inside, innermost first
    exc,      \* exc[t]: an exception is propagating in task t
    last      \* last[t]: what task t's latest scope step was (history)

scopeVars == << cur, stack, exc, last >>

(* ------------------------------------------------------------ ContextVar *)
\* ContextVar.get(None): the value in the calling task's Context, else None
ContextVar_get(c, t) == IF c[t] = MISSING THEN None ELSE c[t]

\* a process-wide slot instead of a task-local one
ContextVar_set_global(c, t, v) == [u \in DOMAIN c |-> Some(v)]

\* ContextVar.set(v): only the calling task's Context changes
ContextVar_set(c, t, v) == [c EXCEPT ![t] = Some(v)]

\* a token that does not remember the value it replaces
Token_noold(c, t) == [old_value |-> MISSING, context |-> t, used |-> FALSE]

\* the Token that ContextVar.set returns
Token(c, t) == [old_value |-> c[t], context |-> t, used |-> FALSE]

\* ContextVar.reset(token) raises RuntimeError for a used token and
\* ValueError for a token created in another Context
ContextVar_reset_raises(t, token) == token.used \/ token.context # t

\* restoring "no value" whatever the token remembers
ContextVar_reset_clear(c, t, token) == [c EXCEPT ![t] = MISSING]

\* ContextVar.reset(token): back to the value before the matching set
ContextVar_reset(c, t, token) == [c EXCEPT ![t] = token.old_value]

(* ------------------------------------------------------- context queries *)
get_executing_context(t) == ContextVar_get(cur, t)

\* membership answered without looking at whether the set is there
is_output_needed_nocheck(t, output_index) ==
    LET ctx == get_executing_context(t)
    IN  /\ ctx # None
        /\ ctx[1].expected_outputs # None
        /\ output_index \in ctx[1].expected_outputs[1]

\* the membership test the wrong way round
is_output_needed_inverted(t, output_index) ==
    LET ctx == get_executing_context(t)
    IN  IF ctx = None \/ ctx[1].expected_outputs = None
        THEN TRUE
        ELSE output_index \notin ctx[1].expected_outputs[1]

\* nothing is needed outside a scope
is_output_needed_noscope(t, output_index) ==
    LET ctx == get_executing_context(t)
    IN  IF ctx = None THEN FALSE
        ELSE IF ctx[1].expected_outputs = None THEN TRUE
        ELSE output_index \in ctx[1].expected_outputs[1]

\* is_output_needed: everything is needed unless the active context carries
\* a set, and then exactly the members of the set are
is_output_needed(t, output_index) ==
    LET ctx == get_executing_context(t)
    IN  IF ctx = None \/ ctx[1].expected_outputs = None
        THEN TRUE
        ELSE output_index \in ctx[1].expected_outputs[1]

(* ----------------------------------------------------- CurrentNodeContext *)
\* a constructor that does not pass expected_outputs on
CurrentNodeContext_noeo(prompt_id, node_id, list_index, expected_outputs) ==
    [context |-> ExecutionContext(prompt_id, node_id, list_index, None),
     token |-> None]

\* __init__: the context is built from the arguments as they are, no token yet
CurrentNodeContext(prompt_id, node_id, list_index, expected_outputs) ==
    [context |-> ExecutionContext(prompt_id, node_id, list_index, expected_outputs),
     token |-> None]

\* __enter__: self.token = current_executing_context.set(self.context)
Entered(self, c, t) == [self EXCEPT !.token = Some(Token(c, t))]

\* __exit__ raises only when reset does
ExitRaises(self, t) ==
    self.token # None /\ ContextVar_reset_raises(t, self.token[1])

\* an exit that clears the variable when the scope was never entered
AfterExit_notoken(self, c, t) ==
    IF self.token # None THEN ContextVar_reset(c, t, self.token[1])
    ELSE [c EXCEPT ![t] = MISSING]

\* an exit that leaves the variable as it is
AfterExit_noreset(self, c, t) == c

\* __exit__: reset with the stored token, nothing without one
AfterExit(self, c, t) ==
    IF self.token # None THEN ContextVar_reset(c, t, self.token[1]) ELSE c

NoStep == [op |-> "none", depth |-> 0, error |-> FALSE, before |-> None]

ScopeInit ==
    /\ cur = [t \in Tasks |-> MISSING]
    /\ stack = [t \in Tasks |-> << >>]
    /\ exc = [t \in Tasks |-> FALSE]
    /\ last = [t \in Tasks |-> NoStep]

\* `with CurrentNodeContext(...)`: construct the scope object and enter it
WithEnter(t, a) ==
    /\ ~exc[t]
    /\ Len(stack[t]) < MaxDepth
    /\ LET self == CurrentNodeContext(a.prompt_id, a.node_id,
                                      a.list_index, a.expected_outputs)
           before == get_executing_context(t)
       IN  /\ cur' = ContextVar_set(cur, t, self.context)
           /\ stack' = [stack EXCEPT ![t] =
                          << [scope |-> Entered(self, cur, t), before |-> before,
                              args |-> a] >>
                          \o stack[t]]
           /\ last' = [last EXCEPT ![t] =
                          [op |-> "enter", depth |-> Len(stack[t]) + 1,
                           error |-> FALSE, before |-> before]]
    /\ UNCHANGED exc

\* the body of the innermost block (or code outside any block) raises
Raise(t) ==
    /\ ~exc[t]
    /\ exc' = [exc EXCEPT ![t] = TRUE]
    /\ UNCHANGED << cur, stack, last >>

\* leaving the innermost `with` block, at the end of its body or while an
\* exception unwinds through it: __exit__ runs and does not swallow the error
WithExit(t) ==
    /\ stack[t] # << >>
    /\ LET frame == Head(stack[t])
       IN  /\ ~ExitRaises(frame.scope, t)
           /\ cur' = AfterExit(frame.scope, cur, t)
           /\ last' = [last EXCEPT ![t] =
                          [op |-> "exit", depth |-> Len(stack[t]),
                           error |-> exc[t], before |-> frame.before]]
    /\ stack' = [stack EXCEPT ![t] = Tail(stack[t])]
    /\ UNCHANGED exc

\* an `except` clause around the block handles the error; the task goes on
\* (and may invoke the node again)
Catch(t) ==
    /\ exc[t]
    /\ exc' = [exc EXCEPT ![t] = FALSE]
    /\ UNCHANGED << cur, stack, last >>

(* ------------------------------------------- scope objects used directly *)
\* CurrentNodeContext objects that code keeps in a name and may enter and
\* leave in any order, more than once, and from either task
ObjIds == {"o1", "o2"}

\* the arguments each object is constructed with
ObjArgs(o) ==
    IF o = "o1"
    THEN { ExecutionContext("prompt-1", "node-1", Some(0), Some({0, 2})),
           ExecutionContext("prompt-1", "node-3", None, None) }
    ELSE { ExecutionContext("prompt-1", "node-2", None, Some({})) }

VARIABLES
    objs,     \* objs[o]: the scope object named o, once constructed
    obs       \* what the latest context query returned, and to which task

objVars == << objs, obs >>

NoQuery == [task |-> "", call |-> "none", index |-> 0, context |-> None, needed |-> TRUE]

\* a query that drops the value it read
AfterQuery_clearing(c, t) == [c EXCEPT ![t] = MISSING]

\* ContextVar.get leaves the variable of every Context as it is
AfterQuery(c, t) == c

\* the token of a scope object after reset has used it; self.token is kept
Exited(self) ==
    IF self.token # None
    THEN [self EXCEPT !.token = Some([self.token[1] EXCEPT !.used = TRUE])]
    ELSE self

ObjInit ==
    /\ objs = [o \in ObjIds |-> None]
    /\ obs = NoQuery

\* o = CurrentNodeContext(...)
Construct(o, a) ==
    /\ objs[o] = None
    /\ objs' = [objs EXCEPT ![o] =
                  Some(CurrentNodeContext(a.prompt_id, a.node_id,
                                          a.list_index, a.expected_outputs))]
    /\ UNCHANGED << cur, last, obs >>

\* o.__enter__() in task t (also the start of `with o:`)
Enter(t, o) ==
    /\ objs[o] # None
    /\ cur' = ContextVar_set(cur, t, objs[o][1].context)
    /\ objs' = [objs EXCEPT ![o] = Some(Entered(objs[o][1], cur, t))]
    /\ last' = [last EXCEPT ![t] = [op |-> "enter", depth |-> 0, error |-> FALSE,
                                    before |-> None]]
    /\ UNCHANGED obs

\* o.__exit__(...) in task t (also the end of `with o:`): the reset either
\* raises and changes nothing, or restores the token's old value
Exit(t, o) ==
    /\ objs[o] # None
    /\ IF ExitRaises(objs[o][1], t)
       THEN /\ last' = [last EXCEPT ![t] = [op |-> "exit_raised", depth |-> 0,
                                            error |-> TRUE,
                                            before |-> None]]
            /\ UNCHANGED << cur, objs >>
       ELSE /\ cur' = AfterExit(objs[o][1], cur, t)
            /\ objs' = [objs EXCEPT ![o] = Some(Exited(objs[o][1]))]
            /\ last' = [last EXCEPT ![t] = [op |-> "exit", depth |-> 0,
                                            error |-> FALSE,
                                            before |-> None]]
    /\ UNCHANGED obs

\* task t calls get_executing_context()
GetContext(t) ==
    /\ obs' = [task |-> t, call |-> "get_executing_context", index |-> 0,
               context |-> get_executing_context(t), needed |-> TRUE]
    /\ cur' = AfterQuery(cur, t)
    /\ UNCHANGED << objs, last >>

\* task t calls is_output_needed(i)
IsOutputNeeded(t, i) ==
    /\ obs' = [task |-> t, call |-> "is_output_needed", index |-> i,
               context |-> None, needed |-> is_output_needed(t, i)]
    /\ cur' = AfterQuery(cur, t)
    /\ UNCHANGED << objs, last >>

(* ------------------------------------------- sequences of enter and exit *)
\* One task that enters and leaves scope objects by explicit __enter__ and
\* __exit__ calls, in any order, possibly while an error raised in a block
\* is on its way to the caller.
SeqTasks == {"t1"}

\* how many enters one sequence is followed for
MaxSeq == 2

VARIABLES
    seq       \* the sequence of enters and exits under way

seqVars == << seq >>

\* base: the task's current context before the first enter of the sequence;
\* entered, exited: the objects in the order of their enters and exits;
\* void: an exit was made on an object that was not open in the sequence;
\* raised: an exit of the sequence raised; error: the error on its way to
\* the caller; masked: an exit replaced the error a block had raised
NoSeq == [base |-> MISSING, entered |-> << >>, exited |-> << >>, void |-> FALSE,
          raised |-> FALSE, error |-> "", masked |-> FALSE]

RECURSIVE Count(_, _)
Count(s, o) ==
    IF s = << >> THEN 0
    ELSE (IF Head(s) = o THEN 1 ELSE 0) + Count(Tail(s), o)

Reverse(s) == [i \in 1 .. Len(s) |-> s[Len(s) + 1 - i]]

\* the object was entered in the sequence more often than it was exited
Open(s, o) == Count(s.entered, o) > Count(s.exited, o)

\* every enter of the sequence has had its exit
Complete(s) ==
    /\ s.entered # << >>
    /\ \A o \in ObjIds : Count(s.entered, o) = Count(s.exited, o)

SeqInit == seq = NoSeq

SeqConstruct(o, a) ==
    /\ Construct(o, a)
    /\ UNCHANGED seq

\* an enter starts a new sequence when none is under way, and continues the
\* one under way otherwise
SeqEnter(t, o) ==
    /\ seq.error = ""
    /\ Enter(t, o)
    /\ IF seq.entered = << >> \/ Complete(seq) \/ seq.void
       THEN seq' = [NoSeq EXCEPT !.base = cur[t], !.entered = << o >>]
       ELSE /\ Len(seq.entered) < MaxSeq
            /\ seq' = [seq EXCEPT !.entered = Append(@, o)]

\* the body of a block raises KeyError
SeqRaise(t) ==
    /\ seq.error = ""
    /\ ~seq.void
    /\ \E o \in ObjIds : Open(seq, o)
    /\ seq' = [seq EXCEPT !.error = "KeyError"]
    /\ UNCHANGED << cur, last, objVars >>

\* __exit__ returns None, so an error in flight goes on to the caller; an
\* error raised by the reset takes its place
SeqExit(t, o) ==
    /\ Exit(t, o)
    /\ IF ExitRaises(objs[o][1], t)
       THEN seq' = [seq EXCEPT !.raised = @ \/ Open(seq, o),
                               !.void = @ \/ (seq.entered # << >> /\ ~Open(seq, o)),
                               !.masked = @ \/ seq.error = "KeyError",
                               !.error = "RuntimeError"]
       ELSE IF seq.entered = << >> THEN seq' = seq
       ELSE IF Open(seq, o) THEN seq' = [seq EXCEPT !.exited = Append(@, o)]
       ELSE seq' = [seq EXCEPT !.void = TRUE]

\* the caller of the outermost block handles the error
SeqCatch(t) ==
    /\ seq.error # ""
    /\ \A o \in ObjIds : ~Open(seq, o)
    /\ seq' = [seq EXCEPT !.error = "", !.masked = FALSE]
    /\ UNCHANGED << cur, last, objVars >>

(* -------------------------------------------------------- spawned tasks *)
\* A task started by another one while that one runs inside a scope.
\* asyncio.create_task runs the child in a copy of the parent's Context;
\* threading.Thread runs it in a new, empty Context.
SpawnKinds == {"asyncio.create_task", "threading.Thread"}

Parent == "t1"
Child == "t2"

VARIABLES
    spawned   \* how the child task was started, and what the parent saw then

spawnVars == << spawned >>

\* a child that starts in an empty Context however it is spawned
Context_at_start_empty(kind, c, p) == MISSING

\* the value of the variable in the Context the child starts with
Context_at_start(kind, c, p) ==
    IF kind = "asyncio.create_task" THEN c[p] ELSE MISSING

SpawnInit == spawned = None

\* the parent starts the child
Spawn(kind) ==
    /\ spawned = None
    /\ ~exc[Parent]
    /\ cur' = [cur EXCEPT ![Child] = Context_at_start(kind, cur, Parent)]
    /\ spawned' = Some([kind |-> kind, parent |-> Parent, child |-> Child,
                        at |-> cur[Parent]])
    /\ UNCHANGED << stack, exc, last >>

\* a task that runs: the parent from the start, the child once started
Started(t) == t = Parent \/ spawned # None

(* ----------------------------------------------------- wrapped mappings *)
VARIABLES
    classes,  \* classes[c]: the node class object c as it is now
    wrapped   \* the latest call of wrap_node_classes and what it returned

wrapVars == << classes, wrapped >>

extVars == << seqVars, spawnVars, wrapVars >>

(* ------------------------------------------------------------- the graph *)
\* node ids in the order a prompt hands them out, and an id no prompt has
NodeOrder == << "1", "2", "3" >>
NodeIds == { NodeOrder[j] : j \in DOMAIN NodeOrder }
UnknownId == "999"
\* inputs that take links, and the widget input that takes a literal
SocketNames == {"a", "b"}
WidgetNames == {"value"}
LiteralValues == {42, 7}

\* an input value: a literal, or a link [producer node id, output index]
Literal(v) == [literal |-> v]
Link(producer, index) == [producer |-> producer, index |-> index]

is_link(value) == "producer" \in DOMAIN value

VARIABLES
    graph,    \* the prompt: node id -> (input name -> input value)
    result    \* the analyzer's answer the scheduler holds for the current graph

graphVars == << graph, result >>

all_node_ids(G) == DOMAIN G

\* the index of every link, whichever node produces it
expectedOutputs_anyproducer(G, node_id) ==
    UNION { UNION { IF is_link(G[m][k]) THEN {G[m][k].index} ELSE {}
                    : k \in DOMAIN G[m] }
            : m \in all_node_ids(G) }

\* every input value counts as a use of the output its number names
expectedOutputs_nolinktest(G, node_id) ==
    UNION { UNION { IF is_link(G[m][k])
                    THEN (IF G[m][k].producer = node_id THEN {G[m][k].index} ELSE {})
                    ELSE {G[m][k].literal % (MaxIndex + 1)}
                    : k \in DOMAIN G[m] }
            : m \in all_node_ids(G) }

\* scan every input of every node; collect the index of each link whose
\* producer is node_id
expectedOutputs(G, node_id) ==
    UNION { UNION { IF is_link(G[m][k]) /\ G[m][k].producer = node_id
                    THEN {G[m][k].index}
                    ELSE {}
                    : k \in DOMAIN G[m] }
            : m \in all_node_ids(G) }

\* the input mappings a new node may come with: links from its sockets to
\* outputs of nodes of G, and a literal for its widget
InputMaps(G) ==
    UNION { [ks -> {Link(p, i) : p \in DOMAIN G, i \in Indices}] : ks \in SUBSET SocketNames }

\* the nodes a worker is running right now
Running == { Head(stack[t]).scope.context.node_id : t \in {u \in Tasks : stack[u] # << >>} }

GraphInit ==
    /\ graph = << >>
    /\ result = None

\* the next node joins the prompt (as submitted, or when a node expands
\* into a subgraph); the scheduler lets no new link reach a running node
add_node(n, inputs) ==
    /\ Cardinality(DOMAIN graph) < Len(NodeOrder)
    /\ n = NodeOrder[Cardinality(DOMAIN graph) + 1]
    /\ \A k \in DOMAIN inputs : inputs[k].producer \notin Running
    /\ graph' = graph @@ (n :> inputs)
    /\ result' = None
    /\ UNCHANGED << scopeVars, objVars >>

\* a widget gets a literal, or another one; links are left alone
set_literal(n, k, v) ==
    /\ n \in DOMAIN graph
    /\ k \in DOMAIN graph[n] => graph[n][k] # Literal(v)
    /\ graph' = [graph EXCEPT ![n] =
                    [j \in DOMAIN graph[n] \cup {k} |->
                        IF j = k THEN Literal(v) ELSE graph[n][j]]]
    /\ result' = None
    /\ UNCHANGED << scopeVars, objVars >>

\* the answer that also takes the scanned links out of the graph
Query_consuming(t, n) ==
    /\ stack[t] = << >>
    /\ result' = Some([node |-> n, outputs |-> expectedOutputs(graph, n)])
    /\ graph' = [m \in DOMAIN graph |->
                    [k \in {j \in DOMAIN graph[m] :
                              ~(is_link(graph[m][j]) /\ graph[m][j].producer = n)}
                        |-> graph[m][k]]]
    /\ UNCHANGED << scopeVars, objVars >>

\* the scheduler, between node invocations, asks the analyzer about node n
Query(t, n) ==
    /\ stack[t] = << >>
    /\ result' = Some([node |-> n, outputs |-> expectedOutputs(graph, n)])
    /\ UNCHANGED << graph, scopeVars, objVars >>

\* the scheduler invokes the node it asked about, inside a scope that
\* carries the answer; a graph mutation since the query voids the answer
SchedInvoke(t) ==
    /\ result # None
    /\ result[1].node \in DOMAIN graph
    /\ stack[t] = << >>
    /\ WithEnter(t, ExecutionContext("prompt-1", result[1].node, None,
                                     Some(result[1].outputs)))
    /\ result' = None
    /\ UNCHANGED << graph, objVars >>

\* the node returned; the scheduler closes the scope
SchedReturn(t) ==
    /\ WithExit(t)
    /\ UNCHANGED << graphVars, objVars >>

Workers == {"t1"}

(* ------------------------------------------------- add_dependency_input *)
(* comfy/node_dependency.py: a decorator gives a node class one more input,  *)
(* wraps its execution function so that the original never sees it, and with *)
(* add_output also gives it one more output carrying the input's value.      *)

\* decorators stacked on one class
MaxStack == 2
\* nodes of a dependency chain
MaxChain == 3

IO_ANY == "*"

\* an input definition: the pair (type, options)
InputDef(type, options) == [type |-> type, options |-> options]

\* Python values, written as their repr: values of the node's own arguments
\* and values fed to a dependency input (None, a str, an int)
ArgValues == {"5", "7"}
PyNone == "None"
DepValues == {PyNone, "'start'", "42"}

\* a tuple or a list held by a class attribute
PyTuple(items) == [type |-> "tuple", items |-> items]
PyList(items) == [type |-> "list", items |-> items]

\* what a call comes to: a TypeError, or a returned value (a tuple with its
\* items, or any other value as one item)
TypeError == [raised |-> TRUE, tuple |-> FALSE, items |-> << >>]
Returned(isTuple, items) == [raised |-> FALSE, tuple |-> isTuple, items |-> items]

\* the attribute FUNCTION names, as the class body defines it: a function or
\* a classmethod; `bound` says the innermost callable is a bound method and
\* `layers` lists the wrappers around it, innermost first
Undecorated(descriptor) == [descriptor |-> descriptor, bound |-> FALSE, layers |-> << >>]

TestExistingOptionalNode ==
    [name |-> "TestExistingOptionalNode",
     INPUT_TYPES |-> [required |-> [value |-> InputDef("INT", "{'default': 1}")],
                      optional |-> [multiplier |-> InputDef("FLOAT", "{'default': 1.0}")]],
     RETURN_TYPES |-> Some(PyTuple(<< "FLOAT" >>)),
     RETURN_NAMES |-> None,
     FUNCTION |-> Undecorated("function")]

TestClassmethodNode ==
    [name |-> "TestClassmethodNode",
     INPUT_TYPES |-> [required |-> [data |-> InputDef("STRING", "{}")]],
     RETURN_TYPES |-> Some(PyTuple(<< "STRING" >>)),
     RETURN_NAMES |-> None,
     FUNCTION |-> Undecorated("classmethod")]

AddDependencyIO ==
    [name |-> "AddDependencyIO",
     INPUT_TYPES |-> [required |-> [value |-> InputDef(IO_ANY, "{}")],
                      optional |-> [depends_on |-> InputDef(IO_ANY, "{}")]],
     RETURN_TYPES |-> Some(PyTuple(<< IO_ANY, IO_ANY >>)),
     RETURN_NAMES |-> Some(PyTuple(<< "value", "signal_out" >>)),
     FUNCTION |-> Undecorated("function")]

\* a node written with lists for its outputs, whose function returns a list
ListNode ==
    [name |-> "ListNode",
     INPUT_TYPES |-> [required |-> [value |-> InputDef("INT", "{}")]],
     RETURN_TYPES |-> Some(PyList(<< "INT" >>)),
     RETURN_NAMES |-> Some(PyList(<< "items" >>)),
     FUNCTION |-> Undecorated("function")]

\* a node whose function takes **kwargs
TestKwargsNode ==
    [name |-> "TestKwargsNode",
     INPUT_TYPES |-> [required |-> [value |-> InputDef("INT", "{'default': 0}")]],
     RETURN_TYPES |-> Some(PyTuple(<< "INT" >>)),
     RETURN_NAMES |-> None,
     FUNCTION |-> Undecorated("function")]

ClassIds == {"TestExistingOptionalNode", "TestClassmethodNode", "AddDependencyIO", "ListNode",
             "TestKwargsNode"}

NodeClass(k) ==
    CASE k = "TestExistingOptionalNode" -> TestExistingOptionalNode
      [] k = "TestClassmethodNode" -> TestClassmethodNode
      [] k = "AddDependencyIO" -> AddDependencyIO
      [] k = "ListNode" -> ListNode
      [] k = "TestKwargsNode" -> TestKwargsNode

\* the parameters of the execution function after self or cls, in order
Params(k) ==
    CASE k = "TestExistingOptionalNode" -> << "value", "multiplier" >>
      [] k = "TestClassmethodNode" -> << "data" >>
      [] k = "AddDependencyIO" -> << "value", "depends_on" >>
      [] k = "ListNode" -> << "value" >>
      [] k = "TestKwargsNode" -> << >>

\* the parameters that have a default, with it
Defaults(k) ==
    CASE k = "TestExistingOptionalNode" -> [multiplier |-> "1.0"]
      [] k = "AddDependencyIO" -> [depends_on |-> PyNone]
      [] OTHER -> << >>

\* the function ends its parameters with **kwargs
VarKw(k) == k = "TestKwargsNode"

\* the arguments a caller always passes: the parameters without a default,
\* and for **kwargs the required inputs the class declares
RequiredArgs(k) ==
    IF VarKw(k)
    THEN DOMAIN NodeClass(k).INPUT_TYPES["required"]
    ELSE { Params(k)[j] : j \in DOMAIN Params(k) } \ DOMAIN Defaults(k)

\* a failed `assert` in a body
AssertionError == [raised |-> TRUE, tuple |-> FALSE, items |-> << "AssertionError" >>]

\* the body of the execution function, given its parameters' values (for
\* **kwargs, the keywords)
Body(k, p) ==
    CASE k = "TestExistingOptionalNode" -> Returned(TRUE, << p["value"] \o " * " \o p["multiplier"] >>)
      [] k = "TestClassmethodNode" -> Returned(TRUE, << "Processed: " \o p["data"] >>)
      [] k = "AddDependencyIO" -> Returned(TRUE, << p["value"], p["depends_on"] >>)
      [] k = "ListNode" -> Returned(FALSE, << "[" \o p["value"] \o "]" >>)
      [] k = "TestKwargsNode" ->
            IF "depends_on" \in DOMAIN p
            THEN AssertionError
            ELSE Returned(TRUE, << IF "value" \in DOMAIN p THEN p["value"] ELSE "0" >>)

\* a call of class k's execution function with npos positional arguments
\* after self or cls and the keyword arguments kwargs: Python binds them to
\* the parameters (TypeError for a missing self, too many positionals, a
\* parameter given twice, an unknown keyword without **kwargs or a missing
\* argument) and runs the body
original_func(k, npos, kwargs) ==
    LET params == Params(k)
        names == { params[j] : j \in DOMAIN params }
        positional == { params[j] : j \in { i \in DOMAIN params : i <= npos } }
        given == positional \cup DOMAIN kwargs \cup DOMAIN Defaults(k)
    IN  IF \/ npos < 0
           \/ npos > Len(params)
           \/ positional \cap DOMAIN kwargs # {}
           \/ (~VarKw(k) /\ DOMAIN kwargs \ names # {})
           \/ names \ given # {}
        THEN TypeError
        ELSE IF VarKw(k)
        THEN Body(k, kwargs)
        ELSE Body(k, [p \in names |->
                        IF p \in DOMAIN kwargs THEN kwargs[p]
                        ELSE IF p \in positional THEN "<object>"
                        ELSE Defaults(k)[p]])

\* dict.pop(key, default): the value taken out, and the dict that is left
dict_pop(d, key, default) == IF key \in DOMAIN d THEN d[key] ELSE default
\* the value read, the key left in
dict_keep(d, key) == d

dict_without(d, key) == [n \in DOMAIN d \ {key} |-> d[n]]

\* the wrapper's work around the call of what it wraps: dep_value is popped
\* from kwargs, res is what the wrapped callable returned for the rest
wrapper(param_name, add_output, kwargs, res) ==
    LET dep_value == dict_pop(kwargs, param_name, PyNone)
    IN  IF res.raised THEN res
        ELSE IF add_output THEN Returned(TRUE, Append(res.items, dep_value))
        ELSE res

\* a call of the callable under FUNCTION: each wrapper, outermost first, pops
\* its own name and passes the positional arguments and the remaining
\* keywords on; the innermost callable takes self or cls from the positional
\* arguments unless it is a bound method, which has its cls already
RECURSIVE call_layers(_, _, _, _, _)
call_layers(k, bound, layers, nargs, kwargs) ==
    IF layers = << >>
    THEN original_func(k, IF bound THEN nargs ELSE nargs - 1, kwargs)
    ELSE LET top == layers[Len(layers)]
         IN  wrapper(top.param_name, top.add_output, kwargs,
                     call_layers(k, bound, SubSeq(layers, 1, Len(layers) - 1), nargs,
                                 dict_without(kwargs, top.param_name)))

\* the keywords that reach the original function through the wrappers
RECURSIVE passed_on(_, _)
passed_on(layers, kwargs) ==
    IF layers = << >>
    THEN kwargs
    ELSE passed_on(SubSeq(layers, 1, Len(layers) - 1),
                   dict_without(kwargs, layers[Len(layers)].param_name))

\* node.f(**kwargs) on an instance, or NodeClass.f(**kwargs) on the class: a
\* classmethod gets cls, a function found on an instance gets the instance
Receivers == {"instance", "class"}
invoke(k, slot, receiver, kwargs) ==
    call_layers(k, slot.bound, slot.layers,
                IF slot.descriptor = "classmethod" \/ receiver = "instance" THEN 1 ELSE 0,
                kwargs)

\* new_input_types: the original's dict with the dependency input put into
\* its category, the category created when the original has none
_wrap_input_types(original, input_name, required) ==
    LET category == IF required THEN "required" ELSE "optional"
        inputs == IF category \in DOMAIN original
                  THEN original
                  ELSE original @@ (category :> << >>)
    IN  [inputs EXCEPT ![category] =
            [n \in DOMAIN inputs[category] \cup {input_name} |->
                IF n = input_name THEN InputDef(IO_ANY, "{}") ELSE inputs[category][n]]]

\* the names output_0 .. output_(n-1)
OutputNames(n) == [i \in 1 .. n |-> "output_" \o ToString(i - 1)]

\* numbers the invented names from 1
_add_output_type_from1(node_class, output_name) ==
    LET types == IF node_class.RETURN_TYPES # None
                 THEN Some(PyTuple(Append(node_class.RETURN_TYPES[1].items, IO_ANY)))
                 ELSE None
        names == IF node_class.RETURN_NAMES # None
                 THEN Some(PyTuple(Append(node_class.RETURN_NAMES[1].items, output_name)))
                 ELSE IF types # None
                 THEN Some(PyTuple([i \in 1 .. Len(types[1].items) - 1 |-> "output_" \o ToString(i)]
                                   \o << output_name >>))
                 ELSE None
    IN  [node_class EXCEPT !.RETURN_TYPES = types, !.RETURN_NAMES = names]

\* RETURN_TYPES gets IO.ANY at its end, a list becoming a tuple; RETURN_NAMES
\* gets output_name at its end, and is created, with invented names for the
\* outputs there were, when the class has RETURN_TYPES only
_add_output_type(node_class, output_name) ==
    LET types == IF node_class.RETURN_TYPES # None
                 THEN Some(PyTuple(Append(node_class.RETURN_TYPES[1].items, IO_ANY)))
                 ELSE None
        names == IF node_class.RETURN_NAMES # None
                 THEN Some(PyTuple(Append(node_class.RETURN_NAMES[1].items, output_name)))
                 ELSE IF types # None
                 THEN Some(PyTuple(OutputNames(Len(types[1].items) - 1) \o << output_name >>))
                 ELSE None
    IN  [node_class EXCEPT !.RETURN_TYPES = types, !.RETURN_NAMES = names]

\* what getattr(node_class, func_name) gives: a classmethod comes back as a
\* method bound to the class, anything else as the function it is
getattr_func(slot) == IF slot.descriptor = "classmethod" THEN "method" ELSE "function"

\* step 3 of the decorator: the wrapper around what getattr gave is set on
\* the class, as a classmethod when that is a classmethod object and as a
\* plain function otherwise
wrap_function(slot, input_name, add_output) ==
    LET original_func_type == getattr_func(slot)
        layers == Append(slot.layers, [param_name |-> input_name, add_output |-> add_output])
    IN  IF original_func_type = "classmethod"
        THEN [descriptor |-> "classmethod", bound |-> FALSE, layers |-> layers]
        ELSE [descriptor |-> "function",
              bound |-> IF slot.layers = << >> THEN original_func_type = "method" ELSE slot.bound,
              layers |-> layers]

\* the decorator: INPUT_TYPES, then the output, then the execution function
add_dependency_input(node_class, input_name, required, add_output, output_name) ==
    LET c1 == [node_class EXCEPT
                  !.INPUT_TYPES = _wrap_input_types(node_class.INPUT_TYPES, input_name, required)]
        out_name == IF output_name # None THEN output_name[1] ELSE input_name \o "_out"
        c2 == IF add_output THEN _add_output_type(c1, out_name) ELSE c1
    IN  [c2 EXCEPT !.FUNCTION = wrap_function(c2.FUNCTION, input_name, add_output)]

DecoratorArg(input_name, required, add_output, output_name) ==
    [input_name |-> input_name, required |-> required,
     add_output |-> add_output, output_name |-> output_name]

\* the ways the decorator is applied: by default, as a required input with an
\* output under the default name, with an output under a given name, and
\* under the name of an input the node has
DecoratorArgs ==
    { DecoratorArg("depends_on", FALSE, FALSE, None),
      DecoratorArg("must_wait", TRUE, TRUE, None),
      DecoratorArg("depends_on", FALSE, TRUE, Some("signal_out")),
      DecoratorArg("multiplier", FALSE, FALSE, None) }

VARIABLES
    node,     \* the node class being defined: its attributes as they are now
    deco,     \* the last decoration: its arguments and the class before it
    call,     \* the last call of the execution function and what came of it
    chain     \* the dependency chain run so far

depVars == << node, deco, call, chain >>

Layers(c) == c.FUNCTION.layers

\* the input names the wrappers of a class take out of the keywords
DepNames(c) == { Layers(c)[j].param_name : j \in DOMAIN Layers(c) }

NoDeco == [args |-> None, before |-> None]
NoResult == Returned(FALSE, << >>)
NoCall == [op |-> "none", receiver |-> "", kwargs |-> << >>, received |-> << >>,
           result |-> NoResult, original |-> NoResult, below |-> NoResult]
NoChain == [len |-> 0, supplied |-> PyNone, signal |-> PyNone, broken |-> FALSE]

\* a node that hands a dependency value on: one whose last decorator added an
\* output, or an AddDependencyIO as it is; with the input the value comes in by
IsChainNode(c) ==
    IF Layers(c) # << >>
    THEN Layers(c)[Len(Layers(c))].add_output
    ELSE c.name = "AddDependencyIO"
ChainInput(c) ==
    IF Layers(c) # << >> THEN Layers(c)[Len(Layers(c))].param_name ELSE "depends_on"

\* the keyword arguments a caller passes: a value for every parameter without
\* a default, and for any of the other parameters and of the dependency inputs
CallKwargs(c) ==
    LET k == c.name
        names == { Params(k)[j] : j \in DOMAIN Params(k) }
        required == RequiredArgs(k) \ DepNames(c)
        signals == DepNames(c) \cup (names \cap {"depends_on"})
        widgets == (names \cap {"multiplier"}) \ DepNames(c)
    IN  { r @@ w @@ d :
            r \in [required -> ArgValues],
            w \in UNION { [S -> {"2.0"}] : S \in SUBSET widgets },
            d \in UNION { [S -> DepValues] : S \in SUBSET signals } }

\* the call on the class as it was defined, with the dependency inputs left out
Original(c, receiver, kwargs) ==
    invoke(c.name, NodeClass(c.name).FUNCTION, receiver,
           [n \in DOMAIN kwargs \ DepNames(c) |-> kwargs[n]])

\* the call on the class as it was before its last decorator, without that
\* decorator's input
Below(c, receiver, kwargs) ==
    IF Layers(c) = << >>
    THEN NoResult
    ELSE LET n == Len(Layers(c))
             slot == IF n = 1
                     THEN NodeClass(c.name).FUNCTION
                     ELSE [c.FUNCTION EXCEPT !.layers = SubSeq(Layers(c), 1, n - 1)]
         IN  invoke(c.name, slot, receiver, dict_without(kwargs, Layers(c)[n].param_name))

Called(c, receiver, kwargs) ==
    [op |-> "call", receiver |-> receiver, kwargs |-> kwargs,
     received |-> passed_on(Layers(c), kwargs),
     result |-> invoke(c.name, c.FUNCTION, receiver, kwargs),
     original |-> Original(c, receiver, kwargs),
     below |-> Below(c, receiver, kwargs)]

\* the passthrough output of a result: its last item
Passthrough(res) == IF res.items = << >> THEN PyNone ELSE res.items[Len(res.items)]

DepInit ==
    /\ node = TestExistingOptionalNode
    /\ deco = NoDeco
    /\ call = NoCall
    /\ chain = NoChain

\* a class statement: the class as its body defines it
Define(k) ==
    /\ node # NodeClass(k)
    /\ node' = NodeClass(k)
    /\ deco' = NoDeco
    /\ call' = NoCall
    /\ chain' = NoChain
    /\ UNCHANGED << scopeVars, objVars, graphVars, extVars >>

\* @add_dependency_input(...) applied to the class
Decorate(a) ==
    /\ Len(Layers(node)) < MaxStack
    /\ node' = add_dependency_input(node, a.input_name, a.required, a.add_output, a.output_name)
    /\ deco' = [args |-> Some(a), before |-> Some(node)]
    /\ call' = NoCall
    /\ chain' = NoChain
    /\ UNCHANGED << scopeVars, objVars, graphVars, extVars >>

\* the execution function is called, once for a class as it stands, on an
\* instance or, a classmethod, on the class; a node that hands a dependency
\* value on starts a chain with it
Call(receiver, kwargs) ==
    /\ call.op = "none"
    /\ receiver = "class" => NodeClass(node.name).FUNCTION.descriptor = "classmethod"
    /\ call' = Called(node, receiver, kwargs)
    /\ chain' = IF IsChainNode(node)
                THEN [len |-> 1,
                      supplied |-> dict_pop(kwargs, ChainInput(node), PyNone),
                      signal |-> Passthrough(call'.result),
                      broken |-> call'.result.raised]
                ELSE NoChain
    /\ UNCHANGED << node, deco, scopeVars, objVars, graphVars, extVars >>

\* the nodes a chain goes on with: a class decorated with add_output, or
\* AddDependencyIO as it is
ChainNodes ==
    { add_dependency_input(NodeClass(k), a.input_name, a.required, a.add_output, a.output_name) :
        k \in ClassIds, a \in { b \in DecoratorArgs : b.add_output } }
    \cup {AddDependencyIO}

\* the next node of the chain is called with the passthrough output of the
\* node before it on its dependency input
ChainCall(c, receiver) ==
    /\ receiver = "class" => NodeClass(c.name).FUNCTION.descriptor = "classmethod"
    /\ call.op = "call"
    /\ chain.len \in 1 .. MaxChain - 1
    /\ ~chain.broken
    /\ LET k == c.name
           names == { Params(k)[j] : j \in DOMAIN Params(k) }
           required == RequiredArgs(k) \ DepNames(c)
           kwargs == [n \in required |-> "5"] @@ (ChainInput(c) :> chain.signal)
       IN  /\ call' = Called(c, receiver, kwargs)
           /\ chain' = [chain EXCEPT !.len = @ + 1,
                                      !.signal = Passthrough(call'.result),
                                      !.broken = call'.result.raised]
    /\ node' = c
    /\ deco' = NoDeco
    /\ UNCHANGED << scopeVars, objVars, graphVars, extVars >>

(* ------------------------------------------------------ wrap_node_classes *)
\* the class objects of the registry, and the mapping that names them
ClassRefs == {"c1", "c2"}

NODE_CLASS_MAPPINGS == [TestExistingOptionalNode |-> "c1", AddDependencyIO |-> "c2"]

\* the names a caller asks to have wrapped; one of them is no key of the mapping
WrapNames == {"TestExistingOptionalNode", "AddDependencyIO", "NotRegistered"}

\* the decorator parameters a caller gives for a name
WrapParams ==
    { DecoratorArg("depends_on", FALSE, FALSE, None),
      DecoratorArg("must_wait", TRUE, TRUE, None) }

NodesToWrap == UNION { [S -> WrapParams] : S \in SUBSET WrapNames }

\* wrap_node_classes: the mapping is copied (copy.copy, the class objects are
\* shared), and for each name of nodes_to_wrap that is a key the decorator is
\* applied to the class object the key is bound to; the decorator changes that
\* object in place and returns it.  No two keys share a class object here.
wrap_node_classes(heap, node_mappings, nodes_to_wrap) ==
    LET names == { n \in DOMAIN nodes_to_wrap : n \in DOMAIN node_mappings }
        Key(c) == CHOOSE n \in names : node_mappings[n] = c
        wrapped_mappings == [n \in DOMAIN node_mappings |-> node_mappings[n]]
    IN  [classes |-> [c \in DOMAIN heap |->
                        IF \E n \in names : node_mappings[n] = c
                        THEN LET p == nodes_to_wrap[Key(c)]
                             IN  add_dependency_input(heap[c], p.input_name, p.required,
                                                      p.add_output, p.output_name)
                        ELSE heap[c]],
         node_mappings |-> node_mappings,
         wrapped_mappings |-> wrapped_mappings]

WrapInit ==
    /\ classes = [c \in ClassRefs |->
                    IF c = "c1" THEN TestExistingOptionalNode ELSE AddDependencyIO]
    /\ wrapped = None

\* wrapped = wrap_node_classes(NODE_CLASS_MAPPINGS, nodes_to_wrap)
WrapNodeClasses(nodes_to_wrap) ==
    /\ \A n \in DOMAIN nodes_to_wrap \cap DOMAIN NODE_CLASS_MAPPINGS :
           Len(Layers(classes[NODE_CLASS_MAPPINGS[n]])) < MaxStack
    /\ LET r == wrap_node_classes(classes, NODE_CLASS_MAPPINGS, nodes_to_wrap)
       IN  /\ classes' = r.classes
           /\ wrapped' = Some([nodes_to_wrap |-> nodes_to_wrap,
                               before |-> classes,
                               node_mappings |-> r.node_mappings,
                               wrapped_mappings |-> r.wrapped_mappings])
    /\ UNCHANGED << scopeVars, objVars, graphVars, depVars, seqVars, spawnVars >>

vars == << cur, stack, exc, last, objs, obs, graph, result, node, deco, call, chain,
          seq, spawned, classes, wrapped >>

Init == ScopeInit /\ ObjInit /\ GraphInit /\ DepInit /\ SeqInit
        /\ SpawnInit /\ WrapInit

Next ==
    \/ \E t \in Tasks : \E a \in ScopeArgs(t) :
          WithEnter(t, a) /\ UNCHANGED << objVars, graphVars, depVars, extVars >>
    \/ \E t \in Tasks : Raise(t) /\ UNCHANGED << objVars, graphVars, depVars, extVars >>
    \/ \E t \in Tasks : WithExit(t) /\ UNCHANGED << objVars, graphVars, depVars, extVars >>
    \/ \E t \in Tasks : Catch(t) /\ UNCHANGED << objVars, graphVars, depVars, extVars >>

Spec == Init /\ [][Next]_vars

NextGraph ==
    \/ \E n \in NodeIds : \E inputs \in InputMaps(graph) :
          add_node(n, inputs) /\ UNCHANGED << depVars, extVars >>
    \/ \E n \in NodeIds : \E k \in WidgetNames : \E v \in LiteralValues :
          set_literal(n, k, v) /\ UNCHANGED << depVars, extVars >>
    \/ \E t \in Workers : \E n \in NodeIds \cup {UnknownId} : Query(t, n) /\ UNCHANGED << depVars, extVars >>
    \/ \E t \in Workers : SchedInvoke(t) /\ UNCHANGED << depVars, extVars >>
    \/ \E t \in Workers : SchedReturn(t) /\ UNCHANGED << depVars, extVars >>

SpecGraph == Init /\ [][NextGraph]_vars

NextObj ==
    \/ \E o \in ObjIds : \E a \in ObjArgs(o) :
          Construct(o, a) /\ UNCHANGED << stack, exc, graphVars, depVars, extVars >>
    \/ \E t \in Tasks : \E o \in ObjIds :
          Enter(t, o) /\ UNCHANGED << stack, exc, graphVars, depVars, extVars >>
    \/ \E t \in Tasks : \E o \in ObjIds :
          Exit(t, o) /\ UNCHANGED << stack, exc, graphVars, depVars, extVars >>
    \/ \E t \in Tasks : GetContext(t) /\ UNCHANGED << stack, exc, graphVars, depVars, extVars >>
    \/ \E t \in Tasks : \E i \in -1 .. MaxIndex + 1 :
          IsOutputNeeded(t, i) /\ UNCHANGED << stack, exc, graphVars, depVars, extVars >>

SpecObj == Init /\ [][NextObj]_vars

NextDep ==
    \/ \E k \in ClassIds : Define(k)
    \/ \E a \in DecoratorArgs : Decorate(a)
    \/ \E r \in Receivers : \E kwargs \in CallKwargs(node) : Call(r, kwargs)
    \/ \E c \in ChainNodes : \E r \in Receivers : ChainCall(c, r)

SpecDep == Init /\ [][NextDep]_vars

NextSeq ==
    \/ \E o \in ObjIds : \E a \in ObjArgs(o) :
          SeqConstruct(o, a) /\ UNCHANGED << stack, exc, graphVars, depVars, spawnVars, wrapVars >>
    \/ \E t \in SeqTasks : \E o \in ObjIds :
          SeqEnter(t, o) /\ UNCHANGED << stack, exc, graphVars, depVars, spawnVars, wrapVars >>
    \/ \E t \in SeqTasks : SeqRaise(t) /\ UNCHANGED << stack, exc, graphVars, depVars, spawnVars, wrapVars >>
    \/ \E t \in SeqTasks : \E o \in ObjIds :
          SeqExit(t, o) /\ UNCHANGED << stack, exc, graphVars, depVars, spawnVars, wrapVars >>
    \/ \E t \in SeqTasks : SeqCatch(t) /\ UNCHANGED << stack, exc, graphVars, depVars, spawnVars, wrapVars >>

SpecSeq == Init /\ [][NextSeq]_vars

NextSpawn ==
    \/ \E kind \in SpawnKinds :
          Spawn(kind) /\ UNCHANGED << objVars, graphVars, depVars, seqVars, wrapVars >>
    \/ \E t \in Tasks : \E a \in ScopeArgs(t) :
          /\ Started(t)
          /\ WithEnter(t, a)
          /\ UNCHANGED << objVars, graphVars, depVars, extVars >>
    \/ \E t \in Tasks :
          /\ Started(t)
          /\ WithExit(t)
          /\ UNCHANGED << objVars, graphVars, depVars, extVars >>

SpecSpawn == Init /\ [][NextSpawn]_vars

NextWrap == \E nodes_to_wrap \in NodesToWrap : WrapNodeClasses(nodes_to_wrap)

SpecWrap == Init /\ [][NextWrap]_vars

(* ================================================================ claims *)
\* the innermost `with` block of task t, when there is one
Innermost(t) == Head(stack[t]).scope.context

\* the answer a query about index i should give for the scope task t is in
\* (the indices asked about reach below 0 and beyond MaxIndex)
AskedIndices == -1 .. MaxIndex + 1

(* C1: after a `with CurrentNodeContext` block is left, at any depth, at the *)
(* end of its body or by an error raised in it, get_executing_context() in   *)
(* that task is again what it was just before the block was entered: the     *)
(* enclosing block's context when nested, none when outermost.               *)
C1_ScopeRestoration ==
    \A t \in Tasks :
        last[t].op = "exit" =>
            /\ get_executing_context(t) = last[t].before
            /\ last[t].depth = 1 => get_executing_context(t) = None
            /\ last[t].depth > 1 => get_executing_context(t) = Some(Innermost(t))

\* a block at depth 3 was left by an error and the enclosing context is back
C1_Witness ==
    \E t \in Tasks :
        /\ last[t].op = "exit" /\ last[t].depth = 3 /\ last[t].error
        /\ get_executing_context(t) = last[t].before
        /\ last[t].before # None

(* C2: with two tasks entering, querying and leaving scopes in any           *)
(* interleaving, what get_executing_context() returns in a task is a context *)
(* that task itself published (one of its own open blocks), and a step of    *)
(* one task never changes the current context of the other.                  *)
C2_OwnContextOnly ==
    \A t \in Tasks :
        get_executing_context(t) # None =>
            /\ get_executing_context(t)[1] \in ScopeArgs(t)
            /\ \E j \in 1 .. Len(stack[t]) :
                   stack[t][j].scope.context = get_executing_context(t)[1]

\* C2: a task sees only contexts it published itself, and no step of one
\* task changes the current context of another
C2_Isolation ==
    /\ [] C2_OwnContextOnly
    /\ [][ \A u \in Tasks : stack'[u] = stack[u] => cur'[u] = cur[u] ]_vars

\* both tasks are inside scopes of their own at the same time, one nested
C2_Witness ==
    /\ Len(stack["t1"]) >= 2
    /\ Len(stack["t2"]) >= 1
    /\ get_executing_context("t1")[1].node_id \in {"node-1", "node-3"}
    /\ get_executing_context("t2")[1].node_id = "node-2"

(* C3: is_output_needed(i) is true when the task is in no scope, true when   *)
(* the innermost scope was opened without expected_outputs, and otherwise    *)
(* exactly whether i is in the innermost scope's expected_outputs: an empty  *)
(* set gives false for every index, and {0,2} gives true, false, true for    *)
(* 0, 1, 2.                                                                  *)
C3_IsOutputNeeded ==
    \A t \in Tasks : \A i \in AskedIndices :
        /\ stack[t] = << >> => is_output_needed(t, i)
        /\ stack[t] # << >> =>
              LET eo == Innermost(t).expected_outputs
              IN  /\ eo = None => is_output_needed(t, i)
                  /\ eo # None => (is_output_needed(t, i) <=> i \in eo[1])
                  /\ eo = Some({}) => ~is_output_needed(t, i)
                  /\ eo = Some({0, 2}) =>
                        /\ is_output_needed(t, 0)
                        /\ ~is_output_needed(t, 1)
                        /\ is_output_needed(t, 2)

\* one task is in a scope with {0,2}, the other in a scope with the empty set
C3_Witness ==
    /\ stack["t1"] # << >> /\ Innermost("t1").expected_outputs = Some({0, 2})
    /\ ~is_output_needed("t1", 1) /\ is_output_needed("t1", 2)
    /\ stack["t2"] # << >> /\ Innermost("t2").expected_outputs = Some({})
    /\ ~is_output_needed("t2", 0)

(* C9: get_executing_context() is the context of the innermost scope the     *)
(* calling task is in, and none exactly when the task is in no scope.        *)
C9_InnermostOrNone ==
    \A t \in Tasks :
        /\ stack[t] # << >> => get_executing_context(t) = Some(Innermost(t))
        /\ stack[t] = << >> <=> get_executing_context(t) = None

\* a task has left all its scopes, while the other is two scopes deep
C9_Witness ==
    \E t, u \in Tasks :
        /\ last[t].op = "exit" /\ stack[t] = << >> /\ get_executing_context(t) = None
        /\ Len(stack[u]) = 2 /\ get_executing_context(u) = Some(Innermost(u))

(* C10: a scope opened with a malformed argument, such as a negative list    *)
(* index, fails at entry: no context with a negative list_index is ever the  *)
(* current context of a task.                                                *)
C10_NoMalformedContext ==
    \A t \in Tasks :
        get_executing_context(t) # None =>
            LET li == get_executing_context(t)[1].list_index
            IN  li = None \/ li[1] >= 0

\* the output indices of node n that some input of some node of G links to
LinkedOutputs(G, n) ==
    { i \in Indices :
        \E m \in DOMAIN G : \E k \in DOMAIN G[m] : G[m][k] = Link(n, i) }

\* the link inputs of a node
LinksOf(inputs) == [k \in {j \in DOMAIN inputs : is_link(inputs[j])} |-> inputs[k]]

\* G and H have the same nodes and the same link inputs
SameNodesAndLinks(G, H) ==
    /\ DOMAIN G = DOMAIN H
    /\ \A m \in DOMAIN G : LinksOf(G[m]) = LinksOf(H[m])

(* C4: while a worker runs node n in the scope the scheduler opened with the *)
(* expected outputs it computed on the graph current at the invocation, and  *)
(* with no later mutation reaching n, is_output_needed(i) = false means that *)
(* no input of any node of the graph links to output i of n.                 *)
C4_SafePruning ==
    \A t \in Workers :
        stack[t] # << >> =>
            \A i \in Indices :
                ~is_output_needed(t, i) =>
                    ~\E m \in DOMAIN graph : \E k \in DOMAIN graph[m] :
                        graph[m][k] = Link(Innermost(t).node_id, i)

\* node 1 runs with output 0 linked and output 1 pruned, and the graph has
\* grown since the invocation
C4_Witness ==
    \E t \in Workers :
        /\ stack[t] # << >> /\ Innermost(t).node_id = "1"
        /\ is_output_needed(t, 0) /\ ~is_output_needed(t, 1)
        /\ DOMAIN graph = NodeIds
        /\ "a" \in DOMAIN graph["3"] /\ graph["3"]["a"] = Link("2", 1)
        /\ last[t].op = "enter"

(* C5: the answer of expectedOutputs(G, n) is exactly the set of indices i   *)
(* such that some input of some node of G is the link (n, i): nothing that   *)
(* is not linked, everything that is, and an index linked several times once.*)
C5_ExactlyLinked ==
    result # None =>
        result[1].outputs = LinkedOutputs(graph, result[1].node)

\* output 0 of node 1 feeds three inputs and the answer is {0}
C5_Witness ==
    /\ result # None /\ result[1].node = "1" /\ result[1].outputs = {0}
    /\ DOMAIN graph = NodeIds
    /\ DOMAIN graph["2"] = {"a", "b"} /\ "a" \in DOMAIN graph["3"]
    /\ graph["2"]["a"] = Link("1", 0) /\ graph["2"]["b"] = Link("1", 0)
    /\ graph["3"]["a"] = Link("1", 0)

(* C6: expectedOutputs(G, n) is the empty set when n is no node of G and     *)
(* when n is a node of G that no input links to, such as the last node of a  *)
(* chain 1 -> 2 -> 3.                                                        *)
C6_EmptyForUnknownOrUnlinked ==
    result # None =>
        LET n == result[1].node
        IN  /\ n \notin DOMAIN graph => result[1].outputs = {}
            /\ (n \in DOMAIN graph /\ LinkedOutputs(graph, n) = {})
                  => result[1].outputs = {}

\* the chain 1 -> 2 -> 3, asked about an id that is no node of it
C6_Witness ==
    /\ result # None /\ result[1].node = UnknownId /\ result[1].outputs = {}
    /\ DOMAIN graph = NodeIds
    /\ "a" \in DOMAIN graph["2"] /\ graph["2"]["a"] = Link("1", 0)
    /\ "a" \in DOMAIN graph["3"] /\ graph["3"]["a"] = Link("2", 0)

C8_LiteralsIgnored ==
    [][ (graph' # graph /\ SameNodesAndLinks(graph, graph')) =>
           \A n \in NodeIds \cup {UnknownId} :
               expectedOutputs(graph', n) = expectedOutputs(graph, n) ]_vars

\* a node has a link and a literal side by side, and the answer is the link
C8_Witness ==
    /\ "2" \in DOMAIN graph
    /\ DOMAIN graph["2"] = {"a", "value"}
    /\ graph["2"]["a"] = Link("1", 0) /\ graph["2"]["value"] = Literal(42)
    /\ DOMAIN graph["1"] = {"value"} /\ graph["1"]["value"] = Literal(7)
    /\ result # None /\ result[1].node = "1" /\ result[1].outputs = {0}

(* C11: the exit step of a scope never raises, in any state the scope object *)
(* and the task can be in: no call of __exit__ ends in an error.             *)
C11_ExitNeverRaises ==
    \A t \in Tasks : last[t].op # "exit_raised"

(* C12: is_output_needed returns a boolean for every integer index, below 0  *)
(* and beyond the outputs included, in every state (no context, no set, an   *)
(* empty set, a set with members), also after exits that failed or came out  *)
(* of order; and it returns true whenever there is no context or no set.     *)
C12_TotalAndConservative ==
    /\ obs.needed \in BOOLEAN
    /\ \A t \in Tasks : \A i \in AskedIndices :
          /\ is_output_needed(t, i) \in BOOLEAN
          /\ cur[t] = MISSING => is_output_needed(t, i)
          /\ (cur[t] # MISSING /\ cur[t][1].expected_outputs = None)
                => is_output_needed(t, i)

\* asked about an index beyond the outputs after an exit has failed, with an
\* answer of false, while the other task has no context at all
C12_Witness ==
    /\ obs.call = "is_output_needed" /\ obs.index = MaxIndex + 1 /\ ~obs.needed
    /\ \E t \in Tasks : last[t].op = "exit_raised"
    /\ \E t \in Tasks : cur[t] = MISSING /\ is_output_needed(t, -1)

(* C13: within a task the `with` blocks are entered and left last-in         *)
(* first-out, and the current context follows them as a stack: entering      *)
(* makes the new block's context current on top of the others, leaving makes *)
(* the context of the block entered before it current again (none below the  *)
(* first), and nothing else changes it.                                      *)
C13_LastInFirstOut ==
    [][ \A t \in Tasks :
          /\ Len(stack'[t]) = Len(stack[t]) + 1 =>
                /\ Tail(stack'[t]) = stack[t]
                /\ ContextVar_get(cur', t) = Some(Head(stack'[t]).args)
          /\ Len(stack'[t]) = Len(stack[t]) - 1 =>
                /\ stack'[t] = Tail(stack[t])
                /\ ContextVar_get(cur', t) =
                      IF stack'[t] = << >> THEN None ELSE Some(Head(stack'[t]).args)
          /\ stack'[t] = stack[t] => ContextVar_get(cur', t) = ContextVar_get(cur, t)
      ]_vars

\* a task left its third block normally and is back in its second, whose
\* arguments differ from those of the first
C13_Witness ==
    \E t \in Tasks :
        /\ last[t].op = "exit" /\ last[t].depth = 3 /\ ~last[t].error
        /\ Len(stack[t]) = 2
        /\ stack[t][1].args # stack[t][2].args
        /\ get_executing_context(t) = Some(stack[t][1].args)

(* C14: while a scope opened with (prompt_id, node_id, list_index,           *)
(* expected_outputs) is the innermost one of a task, get_executing_context() *)
(* returns a context with exactly these four fields, list_index and          *)
(* expected_outputs being None when not given; and the context of every open *)
(* scope stays what it was built as until the scope is left.                 *)
C14_FieldsAsGiven ==
    \A t \in Tasks :
        /\ \A j \in 1 .. Len(stack[t]) : stack[t][j].scope.context = stack[t][j].args
        /\ stack[t] # << >> =>
              LET a == Head(stack[t]).args
                  c == get_executing_context(t)
              IN  /\ c # None
                  /\ c[1].prompt_id = a.prompt_id
                  /\ c[1].node_id = a.node_id
                  /\ c[1].list_index = a.list_index
                  /\ c[1].expected_outputs = a.expected_outputs

\* one task is in a scope opened without list_index and expected_outputs,
\* nested in a scope opened with both; the other in a scope with both
C14_Witness ==
    /\ Len(stack["t1"]) = 2
    /\ stack["t1"][1].args.list_index = None
    /\ stack["t1"][1].args.expected_outputs = None
    /\ stack["t1"][2].args.expected_outputs = Some({0, 2})
    /\ get_executing_context("t1")[1].expected_outputs = None
    /\ stack["t2"] # << >>
    /\ get_executing_context("t2")[1].expected_outputs = Some({1})
    /\ get_executing_context("t2")[1].list_index = Some(0)

(* C15: get_executing_context() and is_output_needed(i) only read: a call of *)
(* either leaves the current context of the calling task and of every other  *)
(* task, and every scope object, as they were.                               *)
C15_QueriesReadOnly ==
    [][ obs' # obs => (cur' = cur /\ objs' = objs) ]_vars

\* a query was answered with false while both tasks have a context
C15_Witness ==
    /\ obs.call = "is_output_needed" /\ ~obs.needed /\ obs.task = "t1"
    /\ cur["t1"] # MISSING /\ cur["t2"] # MISSING
    /\ cur["t1"] # cur["t2"]

(* ------------------------------------------------ add_dependency_input *)
Top(c) == Layers(c)[Len(Layers(c))]

\* how many of the class's decorators added an output
Outputs(c) == Cardinality({ j \in DOMAIN Layers(c) : Layers(c)[j].add_output })

(* C16: a class decorated without add_output keeps its behaviour: a call of   *)
(* its execution function, on an instance or on the class, with the           *)
(* dependency input omitted, None or any value, returns what the undecorated  *)
(* function returns for the other arguments, for functions and classmethods.  *)
C16_BehaviourKept ==
    (/\ call.op = "call"
     /\ Layers(node) # << >>
     /\ Outputs(node) = 0)
    => call.result = call.original

(* C17: when the last decorator has add_output, the call returns a tuple: the *)
(* result of the class as it was before that decorator (a value that is not a *)
(* tuple as its one item) followed by the value given to the decorator's      *)
(* input, None when it was not given.                                         *)
C17_PassthroughAppended ==
    (/\ call.op = "call"
     /\ Layers(node) # << >>
     /\ Top(node).add_output
     /\ ~call.below.raised)
    => call.result = Returned(TRUE, Append(call.below.items,
                                           dict_pop(call.kwargs, Top(node).param_name, PyNone)))

(* C18: along a chain, each node fed on its dependency input with the         *)
(* passthrough output of the node before it, no call fails, the passthrough   *)
(* output of the last node is the value given to the first (None when none    *)
(* was given), and the outputs of each node before the appended ones are what *)
(* the undecorated function returns.                                          *)
C18_ChainCarriesSignal ==
    chain.len >= 1 =>
        /\ ~chain.broken
        /\ chain.signal = chain.supplied
        /\ SubSeq(call.result.items, 1, Len(call.result.items) - Outputs(node))
             = call.original.items

\* the category a decorator puts its input into, and the name of its output
Category(a) == IF a.required THEN "required" ELSE "optional"
OutName(a) == IF a.output_name # None THEN a.output_name[1] ELSE a.input_name \o "_out"

(* C19: after a decoration INPUT_TYPES has the dependency input, under         *)
(* input_name with the definition (IO.ANY, {}), in `required` when required    *)
(* was given and in `optional` otherwise, and every input the class declared   *)
(* before the decoration, required or optional, is there with the definition   *)
(* it had.                                                                     *)
C19_InputTypes ==
    deco.args # None =>
        LET a == deco.args[1]
            before == deco.before[1].INPUT_TYPES
            after == node.INPUT_TYPES
        IN  /\ Category(a) \in DOMAIN after
            /\ a.input_name \in DOMAIN after[Category(a)]
            /\ after[Category(a)][a.input_name] = InputDef(IO_ANY, "{}")
            /\ \A c \in DOMAIN before : \A n \in DOMAIN before[c] :
                   /\ c \in DOMAIN after
                   /\ n \in DOMAIN after[c]
                   /\ after[c][n] = before[c][n]

(* C20, as stated: after a decoration with add_output, RETURN_TYPES is what it *)
(* was followed by IO.ANY and RETURN_NAMES is the names the class had (none    *)
(* when it declared none) followed by output_name, or by input_name + "_out"   *)
(* when no output_name was given.                                              *)
C20_NamesAppended ==
    (deco.args # None /\ deco.args[1].add_output) =>
        LET a == deco.args[1]
            before == deco.before[1]
            names == IF before.RETURN_NAMES # None THEN before.RETURN_NAMES[1].items ELSE << >>
        IN  /\ node.RETURN_TYPES = Some(PyTuple(Append(before.RETURN_TYPES[1].items, IO_ANY)))
            /\ node.RETURN_NAMES = Some(PyTuple(Append(names, OutName(a))))

(* C20, amended: after a decoration with add_output, RETURN_TYPES is a tuple   *)
(* of what it was followed by IO.ANY; RETURN_NAMES is a tuple of the names the *)
(* class had followed by output_name (input_name + "_out" when none was given) *)
(* when the class declared RETURN_NAMES, and when it declared none it is       *)
(* output_0 .. output_(n-1) for its n outputs followed by that name.           *)
C20_ReturnTypesAndNames ==
    (deco.args # None /\ deco.args[1].add_output) =>
        LET a == deco.args[1]
            before == deco.before[1]
            n == Len(before.RETURN_TYPES[1].items)
            names == IF before.RETURN_NAMES # None
                     THEN before.RETURN_NAMES[1].items
                     ELSE [i \in 1 .. n |-> "output_" \o ToString(i - 1)]
        IN  /\ node.RETURN_TYPES = Some(PyTuple(Append(before.RETURN_TYPES[1].items, IO_ANY)))
            /\ node.RETURN_NAMES = Some(PyTuple(Append(names, OutName(a))))

C20_Witness ==
    /\ deco.args # None
    /\ deco.args[1].add_output
    /\ deco.args[1].output_name = None
    /\ deco.before[1].RETURN_NAMES = None
    /\ node.RETURN_TYPES = Some(PyTuple(<< "FLOAT", IO_ANY >>))
    /\ node.RETURN_NAMES = Some(PyTuple(<< "output_0", "must_wait_out" >>))

(* C21: the original function never gets a dependency parameter: in every     *)
(* call of a decorated function, also of a class decorated several times      *)
(* under different names and of a function taking **kwargs, the keywords that *)
(* reach the original function hold none of the decorators' input names and   *)
(* all the other keywords of the call, the **kwargs function does not fail    *)
(* its assertion, and every decorator's input is declared in INPUT_TYPES.     *)
C21_NeverReceivesDependency ==
    (call.op = "call" /\ Layers(node) # << >>) =>
        /\ DOMAIN call.received \cap DepNames(node) = {}
        /\ call.received = [n \in DOMAIN call.kwargs \ DepNames(node) |-> call.kwargs[n]]
        /\ call.result # AssertionError
        /\ \A n \in DepNames(node) :
               \E c \in DOMAIN node.INPUT_TYPES : n \in DOMAIN node.INPUT_TYPES[c]

C21_Witness ==
    /\ call.op = "call"
    /\ node.name = "TestKwargsNode"
    /\ DepNames(node) = {"depends_on", "must_wait"}
    /\ DepNames(node) \subseteq DOMAIN call.kwargs
    /\ call.kwargs["depends_on"] = "42"
    /\ call.received = [value |-> "7"]
    /\ ~call.result.raised

\* the objects of the sequence are distinct: each was entered once
DistinctObjects(s) == \A o \in ObjIds : Count(s.entered, o) <= 1

\* C22 (as stated): once every scope entered on distinct objects in one task
\* has been exited exactly once, in whatever order, the task's current
\* context is the one it had before the first enter.
C22_AnyOrderRestores ==
    \A t \in SeqTasks :
        (Complete(seq) /\ ~seq.void /\ DistinctObjects(seq)) => cur[t] = seq.base

\* C22 (amended): once every scope entered on distinct objects in one task
\* has been exited exactly once in the reverse order of entry, no exit has
\* raised and the task's current context is the one it had before the first
\* enter.
C22_ReverseOrderRestores ==
    \A t \in SeqTasks :
        (/\ Complete(seq) /\ ~seq.void /\ DistinctObjects(seq)
         /\ seq.exited = Reverse(seq.entered))
            => (cur[t] = seq.base /\ ~seq.raised)

C22_Witness ==
    /\ Complete(seq) /\ ~seq.void
    /\ seq.base # MISSING
    /\ seq.entered = << "o2", "o1" >>
    /\ seq.exited = << "o1", "o2" >>
    /\ cur["t1"] = seq.base
    /\ last["t1"].op = "exit"

\* the sequence enters one object again while it is already active
Reentered(s) ==
    /\ Len(s.entered) >= 2
    /\ \A i \in 1 .. Len(s.entered) : s.entered[i] = s.entered[1]

\* C23: when a single scope object is entered again while already active
\* and then exited once per enter, no exit fails, and after the outermost
\* exit the task's current context is the one it had before the first enter.
C23_ReentrantRestores ==
    \A t \in SeqTasks :
        (Reentered(seq) /\ ~seq.void) =>
            /\ ~seq.raised
            /\ Complete(seq) => cur[t] = seq.base

\* C26: an error raised inside a scoped block reaches the caller unchanged:
\* no exit replaces it by another error, and once the blocks have been left
\* in reverse order of entry the previous context is current again.
C26_ErrorPropagatesUnchanged ==
    \A t \in SeqTasks :
        seq.error # "" =>
            /\ ~seq.masked
            /\ (Complete(seq) /\ ~seq.void /\ seq.exited = Reverse(seq.entered))
                   => cur[t] = seq.base

\* the token of scope object o was created in a task other than t
ForeignToken(t, o) ==
    /\ objs[o] # None
    /\ objs[o][1].token # None
    /\ objs[o][1].token[1].context # t

\* C25: when a scope entered in one task is exited from a different task,
\* the exit completes without raising and leaves the current context of
\* every other task as it is.
C25_CrossTaskExit ==
    [][\A t \in Tasks : \A o \in ObjIds :
          (ForeignToken(t, o) /\ Exit(t, o)) =>
              /\ last'[t].op = "exit"
              /\ \A u \in Tasks \ {t} : cur'[u] = cur[u]]_vars

\* scope object o has been constructed and never entered
NeverEntered(o) == objs[o] # None /\ objs[o][1].token = None

\* C27: constructing a scope object publishes nothing; while no constructed
\* object has been entered, no task has a current context and
\* get_executing_context() returns none; an exit on a scope that was never
\* entered does not raise and leaves the current context unchanged.
C27_OnlyEnterPublishes ==
    [][/\ \A o \in ObjIds : \A a \in ObjArgs(o) : Construct(o, a) => cur' = cur
       /\ (\A o \in ObjIds : objs[o] # None => NeverEntered(o)) =>
              /\ \A t \in Tasks : get_executing_context(t) = None
              /\ obs.call = "get_executing_context" => obs.context = None
       /\ \A t \in Tasks : \A o \in ObjIds :
              (NeverEntered(o) /\ Exit(t, o)) =>
                  /\ last'[t].op = "exit"
                  /\ cur' = cur]_vars

C27_Witness ==
    /\ NeverEntered("o2")
    /\ objs["o1"] # None /\ objs["o1"][1].token # None
    /\ ~objs["o1"][1].token[1].used
    /\ cur["t1"] = Some(objs["o1"][1].context)
    /\ last["t1"].op = "exit"
    /\ obs.call = "get_executing_context" /\ obs.context = None

\* what a task sees outside the blocks it has opened itself
Outside(t) ==
    IF spawned # None /\ t = spawned[1].child
    THEN (IF spawned[1].kind = "asyncio.create_task" THEN spawned[1].at ELSE MISSING)
    ELSE MISSING

\* what a task sees given only its own blocks
OwnView(t) == IF stack[t] # << >> THEN Some(Innermost(t)) ELSE Outside(t)

\* C24 (as stated): a task spawned while a scope is active in its parent
\* starts with the parent's current context as its own, and afterwards each
\* of the two sees its own innermost open block, or what it started with.
C24_ChildStartsWithParentContext ==
    spawned # None =>
        /\ stack[spawned[1].child] = << >> => cur[spawned[1].child] = spawned[1].at
        /\ \A t \in Tasks : stack[t] # << >> => cur[t] = Some(Innermost(t))
        /\ stack[spawned[1].parent] = << >> => cur[spawned[1].parent] = MISSING

\* C24 (amended): a task spawned with asyncio.create_task starts with the
\* parent's current context as its own and one spawned with threading.Thread
\* starts with none; afterwards each of the two sees its own innermost open
\* block, or what it started with, whatever the other opens and closes.
C24_ChildStartsByKind ==
    spawned # None =>
        /\ \A t \in Tasks : cur[t] = OwnView(t)
        /\ get_executing_context(spawned[1].child) =
               ContextVar_get([t \in Tasks |-> OwnView(t)], spawned[1].child)

C24_Witness ==
    /\ spawned # None
    /\ spawned[1].kind = "asyncio.create_task"
    /\ spawned[1].at # MISSING
    /\ stack["t1"] = << >>
    /\ stack["t2"] = << >>
    /\ last["t1"].op = "exit"
    /\ last["t2"].op = "exit"
    /\ cur["t2"] = spawned[1].at
    /\ cur["t1"] = MISSING

\* C29: wrap_node_classes does not modify its input: after the call the
\* mapping passed in has the same keys, bound to classes that are as they
\* were before the call; the returned mapping has exactly the keys of the
\* input and exposes, for the names of nodes_to_wrap that are keys, the
\* wrapped classes; names that are no keys are ignored.
C29_InputNotModified ==
    wrapped # None =>
        LET w == wrapped[1]
        IN  /\ w.node_mappings = NODE_CLASS_MAPPINGS
            /\ \A n \in DOMAIN w.node_mappings :
                   classes[w.node_mappings[n]] = w.before[w.node_mappings[n]]
            /\ DOMAIN w.wrapped_mappings = DOMAIN NODE_CLASS_MAPPINGS
            /\ \A n \in DOMAIN w.nodes_to_wrap \cap DOMAIN w.wrapped_mappings :
                   Len(Layers(classes[w.wrapped_mappings[n]]))
                       = Len(Layers(w.before[NODE_CLASS_MAPPINGS[n]])) + 1

\* every decorator of the class added an output
AllOutputs(c) == Layers(c) # << >> /\ Outputs(c) = Len(Layers(c))

\* C28: for a class that declares RETURN_TYPES and whose function returns a
\* tuple with one element per declared output, after any number of stacked
\* decorators with add_output RETURN_TYPES, RETURN_NAMES and the returned
\* tuple have the same length, and the k-th appended value is the value given
\* for the input of the k-th decorator applied.
C28_OutputsAligned ==
    (call.op = "call" /\ AllOutputs(node) /\ node.name # "ListNode") =>
        LET n == Len(NodeClass(node.name).RETURN_TYPES[1].items)
        IN  /\ ~call.result.raised
            /\ Len(node.RETURN_TYPES[1].items) = Len(node.RETURN_NAMES[1].items)
            /\ Len(call.result.items) = Len(node.RETURN_TYPES[1].items)
            /\ \A k \in 1 .. Len(Layers(node)) :
                   call.result.items[n + k]
                       = dict_pop(call.kwargs, Layers(node)[k].param_name, PyNone)

====
